---- MODULE Spec2Model ----
(***************************************************************************)
(* Model of the Crypto Analyzer dashboard (src/app.py) and of the coin     *)
(* catalog job (src/make_coins.py).                                        *)
(*                                                                         *)
(* Floating-point values are modelled as extended rationals: a record      *)
(* [n, d] with d > 0 is the reduced fraction n/d, [n |-> 1, d |-> 0] is    *)
(* +inf, [n |-> -1, d |-> 0] is -inf and [n |-> 0, d |-> 0] is NaN.  The   *)
(* special values follow IEEE-754 as numpy/pandas apply it (x/0 = inf,     *)
(* 0/0 = NaN, every comparison with NaN is false); rounding error of the   *)
(* binary representation and the sign of zero are not modelled.            *)
(***************************************************************************)
EXTENDS Integers, Sequences, FiniteSets, TLC

VARIABLES
    sv, headline, rowsig, spc,          \* signal classifier: input value and the two outputs
    period, prices, rsi, rpc,           \* calculate_rsi: inputs, output, position
    hin, hdays, hout, hpc,              \* get_historical_data: provider series, days, result, position
    now,                                \* the clock of the cache, in seconds
    coin_cache, hist_cache,             \* st.cache_data stores of get_coin_data and get_historical_data
    sel,                                \* per session: the widget values of its run of main, and the run's number
    step,                               \* per session: where its script thread stands
    got,                                \* per session: what the two cached calls returned to the run
    fetched,                            \* per session: the provider calls of the run, with their responses
    screen,                             \* per session: the elements the finished run displayed
    ctotal, cpage, coins_list,          \* fetch_top_coins: total, next page, records so far
    cresponses, cfile, cpc              \* the provider's answers, the files written, position

sigVars == <<sv, headline, rowsig, spc>>
rsiVars == <<period, prices, rsi, rpc>>
histVars == <<hin, hdays, hout, hpc>>
sessVars == <<sel, step, got, fetched, screen>>
appVars == <<now, coin_cache, hist_cache, sessVars>>
catVars == <<ctotal, cpage, coins_list, cresponses, cfile, cpc>>
vars == <<sigVars, rsiVars, histVars, appVars, catVars>>

(***************************************************************************)
(* Floats                                                                  *)
(***************************************************************************)
Abs(i) == IF i < 0 THEN -i ELSE i

Sgn(i) == IF i < 0 THEN -1 ELSE IF i > 0 THEN 1 ELSE 0

RECURSIVE GCD(_, _)
GCD(a, b) == IF b = 0 THEN a ELSE GCD(b, a % b)

NaN == [n |-> 0, d |-> 0]

PosInf == [n |-> 1, d |-> 0]

\* the float n/d for d # 0, reduced and with a positive denominator
Frac(n, d) ==
    LET g == GCD(Abs(n), Abs(d))
    IN  [n |-> (Sgn(d) * n) \div g, d |-> Abs(d) \div g]

F(i) == [n |-> i, d |-> 1]

IsNaN(x) == x.d = 0 /\ x.n = 0

IsInf(x) == x.d = 0 /\ x.n # 0

IsFinite(x) == x.d # 0

FNeg(x) == [n |-> -x.n, d |-> x.d]

FAdd(x, y) ==
    IF IsNaN(x) \/ IsNaN(y) THEN NaN
    ELSE IF IsInf(x) /\ IsInf(y) THEN (IF x.n = y.n THEN x ELSE NaN)
    ELSE IF IsInf(x) THEN x
    ELSE IF IsInf(y) THEN y
    ELSE Frac(x.n * y.d + y.n * x.d, x.d * y.d)

FSub(x, y) == FAdd(x, FNeg(y))

FMul(x, y) ==
    IF IsNaN(x) \/ IsNaN(y) THEN NaN
    ELSE IF IsInf(x) \/ IsInf(y)
         THEN (IF x.n = 0 \/ y.n = 0 THEN NaN
               ELSE [n |-> Sgn(x.n) * Sgn(y.n), d |-> 0])
    ELSE Frac(x.n * y.n, x.d * y.d)

FDiv(x, y) ==
    IF IsNaN(x) \/ IsNaN(y) THEN NaN
    ELSE IF IsInf(x)
         THEN (IF IsInf(y) THEN NaN
               ELSE [n |-> x.n * (IF y.n < 0 THEN -1 ELSE 1), d |-> 0])
    ELSE IF IsInf(y) THEN F(0)
    ELSE IF y.n = 0
         THEN (IF x.n = 0 THEN NaN ELSE [n |-> Sgn(x.n), d |-> 0])
    ELSE Frac(x.n * y.d, x.d * y.n)

FLt(x, y) ==
    IF IsNaN(x) \/ IsNaN(y) THEN FALSE
    ELSE IF IsInf(x) /\ IsInf(y) THEN x.n < y.n
    ELSE x.n * y.d < y.n * x.d

FGt(x, y) == FLt(y, x)

\* x != y on floats: NaN differs from everything, itself included
FNe(x, y) == IsNaN(x) \/ IsNaN(y) \/ x # y

\* round(x, 2): to the nearest hundredth, ties to even; NaN and the infinities unchanged
Round2(x) ==
    IF ~IsFinite(x) THEN x
    ELSE LET num == x.n * 100
             q == num \div x.d
             r == num % x.d
             up == 2 * r > x.d \/ (2 * r = x.d /\ q % 2 = 1)
         IN  Frac(IF up THEN q + 1 ELSE q, 100)

(***************************************************************************)
(* Signal classifier                                                       *)
(***************************************************************************)
OVERSOLD == 30

OVERBOUGHT == 70

\* faulty variant: the oversold threshold taken inclusively
HeadlineSignalInclusive(v) ==
    IF ~FGt(v, F(OVERSOLD)) /\ ~IsNaN(v) THEN "Mua"
    ELSE IF FGt(v, F(OVERBOUGHT)) THEN "Ban"
    ELSE "Giu"

\* main, lines 142-147: the headline signal of a run
HeadlineSignal(v) ==
    IF FLt(v, F(OVERSOLD)) THEN "Mua"
    ELSE IF FGt(v, F(OVERBOUGHT)) THEN "Ban"
    ELSE "Giu"

\* main, line 226: the lambda applied to every row of the table
RowSignal(x) ==
    IF FLt(x, F(OVERSOLD)) THEN "Mua"
    ELSE (IF FGt(x, F(OVERBOUGHT)) THEN "Ban" ELSE "Giu")

(***************************************************************************)
(* calculate_rsi                                                           *)
(***************************************************************************)
DefaultPeriod == 14

\* faulty variant: the difference taken the wrong way round
DiffReversed(ps) ==
    [i \in 1..Len(ps) |-> IF i = 1 THEN NaN ELSE FSub(ps[i - 1], ps[i])]

\* prices.diff(): undefined at the first point
Diff(ps) ==
    [i \in 1..Len(ps) |-> IF i = 1 THEN NaN ELSE FSub(ps[i], ps[i - 1])]

\* np.where(delta > 0, delta, 0)
Gain(delta) ==
    [i \in 1..Len(delta) |-> IF FGt(delta[i], F(0)) THEN delta[i] ELSE F(0)]

\* np.where(delta < 0, -delta, 0)
Loss(delta) ==
    [i \in 1..Len(delta) |-> IF FLt(delta[i], F(0)) THEN FNeg(delta[i]) ELSE F(0)]

RECURSIVE SumRange(_, _, _)
SumRange(xs, lo, hi) ==
    IF lo > hi THEN F(0)
    ELSE IF lo = hi THEN xs[lo]
    ELSE LET mid == (lo + hi) \div 2
         IN  FAdd(SumRange(xs, lo, mid), SumRange(xs, mid + 1, hi))

\* faulty variant: rolling(window=w) with the default min_periods (= w): no value during warm-up
RollingMeanWarmup(xs, w) ==
    [i \in 1..Len(xs) |->
        IF i < w THEN NaN ELSE FDiv(SumRange(xs, i - w + 1, i), F(w))]

\* pd.Series(xs).rolling(window=w, min_periods=1).mean()
RollingMean(xs, w) ==
    [i \in 1..Len(xs) |->
        LET lo == IF i - w + 1 < 1 THEN 1 ELSE i - w + 1
        IN  FDiv(SumRange(xs, lo, i), F(i - lo + 1))]

\* faulty variant: the division without the zero guard
RelativeStrengthUnguarded(avg_gain, avg_loss) ==
    [i \in 1..Len(avg_loss) |-> FDiv(avg_gain[i], avg_loss[i])]

\* np.where(avg_loss != 0, avg_gain / avg_loss, np.inf)
RelativeStrength(avg_gain, avg_loss) ==
    [i \in 1..Len(avg_loss) |->
        IF FNe(avg_loss[i], F(0)) THEN FDiv(avg_gain[i], avg_loss[i]) ELSE PosInf]

calculate_rsi(ps, p) ==
    LET delta == Diff(ps)
        avg_gain == RollingMean(Gain(delta), p)
        avg_loss == RollingMean(Loss(delta), p)
        rs == RelativeStrength(avg_gain, avg_loss)
    IN  [i \in 1..Len(ps) |-> FSub(F(100), FDiv(F(100), FAdd(F(1), rs[i])))]

\* the trailing-window averages calculate_rsi computes, for stating properties
AvgGain(ps, p) == RollingMean(Gain(Diff(ps)), p)

AvgLoss(ps, p) == RollingMean(Loss(Diff(ps)), p)

(***************************************************************************)
(* get_historical_data                                                     *)
(*                                                                         *)
(* A provider response is a record: exc is the exception requests.get      *)
(* raised ("none" when it returned), status the HTTP status, body "json"   *)
(* when the body parses, data the parsed object (a record whose fields are *)
(* the keys present).  The arrays of a market_chart object are sequences   *)
(* of <<epoch_ms, value>> pairs.  A data frame is the sequence of its rows.*)
(* A call returns [value, elements]: the function's result and the         *)
(* st.* elements it emitted.                                               *)
(***************************************************************************)
BUDGET == 1000

SHORT_RANGE_DAYS == 7

DAY_MS == 24 * 60 * 60 * 1000

\* lines 40-41: the request that is sent
HistoryRequest(coin_id, days) ==
    [coin |-> coin_id, days |-> days,
     interval |-> IF days <= SHORT_RANGE_DAYS THEN "hourly" ELSE "daily"]

Times(a) == [i \in 1..Len(a) |-> a[i][1]]

Ascending(ts) == \A i \in 1..(Len(ts) - 1) : ts[i] < ts[i + 1]

Indices(m) == [j \in 1..m |-> j]

\* index pairs of an inner merge on the key, from left row i on: the left order
\* is kept and a left row meets its matches in right order
RECURSIVE JoinFrom(_, _, _)
JoinFrom(lt, rt, i) ==
    IF i > Len(lt) THEN <<>>
    ELSE LET hit(j) == rt[j] = lt[i]
             js == SelectSeq(Indices(Len(rt)), hit)
         IN  [k \in 1..Len(js) |-> <<i, js[k]>>] \o JoinFrom(lt, rt, i + 1)

\* the index pairs <<left row, right row>> of left.merge(right, on="time");
\* equal key columns without repeats pair up row by row
JoinIdx(lt, rt) ==
    IF lt = rt /\ Ascending(lt) THEN [k \in 1..Len(lt) |-> <<k, k>>]
    ELSE JoinFrom(lt, rt, 1)

\* lines 50-58: the three arrays joined on time, with volume_percent_mc
AlignedSeries(data) ==
    LET pv == JoinIdx(Times(data.prices), Times(data.total_volumes))
        pvt == [k \in 1..Len(pv) |-> data.prices[pv[k][1]][1]]
        pvm == JoinIdx(pvt, Times(data.market_caps))
    IN  [k \in 1..Len(pvm) |->
            LET ip == pv[pvm[k][1]][1]
                iv == pv[pvm[k][1]][2]
                im == pvm[k][2]
                vol == data.total_volumes[iv][2]
                mc == data.market_caps[im][2]
            IN  [time |-> data.prices[ip][1],
                 price |-> data.prices[ip][2],
                 volume |-> vol,
                 market_cap |-> mc,
                 volume_percent_mc |-> FMul(FDiv(vol, mc), F(100))]]

MinOf(S) == CHOOSE x \in S : \A y \in S : x <= y

MaxOf(S) == CHOOSE x \in S : \A y \in S : x >= y

NotNaN(x) == ~IsNaN(x)

\* mean of a column of a group: NaN is skipped, an empty group gives NaN
MeanSkipNa(xs) ==
    LET ys == SelectSeq(xs, NotNaN)
    IN  IF Len(ys) = 0 THEN NaN ELSE FDiv(SumRange(ys, 1, Len(ys)), F(Len(ys)))

\* sum of a column of a group: NaN is skipped, an empty group gives 0
SumSkipNa(xs) ==
    LET ys == SelectSeq(xs, NotNaN)
    IN  SumRange(ys, 1, Len(ys))

\* lines 64-69: df.resample("D", on="time").agg(...).reset_index(): one row per
\* calendar day from the first day to the last, empty days included
ResampleDaily(df) ==
    LET dayOf == [i \in 1..Len(df) |-> df[i].time \div DAY_MS]
        days == {dayOf[i] : i \in 1..Len(df)}
        first == MinOf(days)
        last == MaxOf(days)
    IN  [k \in 1..(last - first + 1) |->
            LET d == first + k - 1
                inDay(i) == dayOf[i] = d
                ix == SelectSeq(Indices(Len(df)), inDay)
                price == [j \in 1..Len(ix) |-> df[ix[j]].price]
                volume == [j \in 1..Len(ix) |-> df[ix[j]].volume]
                market_cap == [j \in 1..Len(ix) |-> df[ix[j]].market_cap]
                vpm == [j \in 1..Len(ix) |-> df[ix[j]].volume_percent_mc]
            IN  [time |-> d * DAY_MS,
                 price |-> MeanSkipNa(price),
                 volume |-> SumSkipNa(volume),
                 market_cap |-> MeanSkipNa(market_cap),
                 volume_percent_mc |-> MeanSkipNa(vpm)]]

\* df.iloc[::n]: the rows at positions 0, n, 2n, ...
EveryNth(df, n) ==
    [k \in 1..((Len(df) + n - 1) \div n) |-> df[(k - 1) * n + 1]]

\* faulty variant: the step as the rounded-up quotient
SliceStepCeil(len) == (len + BUDGET - 1) \div BUDGET

\* line 72
SliceStep(len) == len \div BUDGET + 1

\* faulty variant: the budget test taken inclusively
DownsampleInclusive(df, days) ==
    IF Len(df) >= BUDGET
    THEN (IF days > SHORT_RANGE_DAYS THEN ResampleDaily(df)
          ELSE EveryNth(df, SliceStep(Len(df))))
    ELSE df

\* lines 61-73
Downsample(df, days) ==
    IF Len(df) > BUDGET
    THEN (IF days > SHORT_RANGE_DAYS THEN ResampleDaily(df)
          ELSE EveryNth(df, SliceStep(Len(df))))
    ELSE df

\* an element st.<w>(...) puts on the page: text names the message, val holds its values
Element(w, text, val) == [w |-> w, text |-> text, val |-> val]

HistoryKeys == {"prices", "total_volumes", "market_caps"}

\* raise_for_status(): 4xx and 5xx raise
StatusRaises(status) == status >= 400 /\ status < 600

\* lines 76-78: the except branch
HistoryFailure ==
    [value |-> <<>>, elements |-> <<Element("error", "history", <<>>)>>]

\* lines 39-78
get_historical_data(resp, days) ==
    IF resp.exc # "none" THEN HistoryFailure
    ELSE IF StatusRaises(resp.status) THEN HistoryFailure
    ELSE IF resp.body # "json" THEN HistoryFailure
    ELSE IF "error" \in DOMAIN resp.data THEN HistoryFailure
    ELSE IF ~(HistoryKeys \subseteq DOMAIN resp.data) THEN HistoryFailure
    ELSE [value |-> Downsample(AlignedSeries(resp.data), days), elements |-> <<>>]

OkResponse(data) == [exc |-> "none", status |-> 200, body |-> "json", data |-> data]

(***************************************************************************)
(* get_coin_data                                                           *)
(***************************************************************************)
\* Python values: None, a str, a float (Frac) and a dict (a function of its
\* keys) are told apart by their fields
NoneVal == [none |-> TRUE]

Str(s) == [str |-> s]

IsNone(x) == DOMAIN x = {"none"}

IsStr(x) == DOMAIN x = {"str"}

IsFloat(x) == DOMAIN x = {"n", "d"}

IsDict(x) == ~IsNone(x) /\ ~IsStr(x) /\ ~IsFloat(x)

\* dict.get(key, default): a key that is present with the value None gives None
Get(dict, key, default) == IF key \in DOMAIN dict THEN dict[key] ELSE default

EmptyDict == [k \in {} |-> NoneVal]

\* str.upper() on the strings the provider data below uses
Upper(x) ==
    Str(CASE x.str = "btc" -> "BTC"
          [] x.str = "eth" -> "ETH"
          [] x.str = "Bitcoin" -> "BITCOIN"
          [] x.str = "Ethereum" -> "ETHEREUM"
          [] OTHER -> x.str)

\* lines 31-33: the except branch
CoinFailure ==
    [value |-> NoneVal, elements |-> <<Element("error", "coin_fetch", <<>>)>>]

\* lines 21-27: the attribute lookups that raise AttributeError, .get on a
\* value that is no dict and .upper on a value that is no str
CoinFieldsRaise(data) ==
    \/ ~IsDict(data)
    \/ ~IsDict(Get(data, "market_data", EmptyDict))
    \/ ~IsStr(Get(data, "symbol", Str("N/A")))
    \/ \E k \in {"current_price", "market_cap", "total_volume"} :
          ~IsDict(Get(Get(data, "market_data", EmptyDict), k, EmptyDict))

\* lines 13-33
get_coin_data(resp) ==
    IF resp.exc # "none" THEN CoinFailure
    ELSE IF StatusRaises(resp.status) THEN CoinFailure
    ELSE IF resp.body # "json" THEN CoinFailure
    ELSE IF IsDict(resp.data) /\ "error" \in DOMAIN resp.data THEN CoinFailure
    ELSE IF CoinFieldsRaise(resp.data) THEN CoinFailure
    ELSE LET data == resp.data
             market_data == Get(data, "market_data", EmptyDict)
         IN  [value |->
                [name |-> Get(data, "name", Str("N/A")),
                 symbol |-> Upper(Get(data, "symbol", Str("N/A"))),
                 price |-> Get(Get(market_data, "current_price", EmptyDict), "usd", NoneVal),
                 market_cap |-> Get(Get(market_data, "market_cap", EmptyDict), "usd", NoneVal),
                 volume |-> Get(Get(market_data, "total_volume", EmptyDict), "usd", NoneVal),
                 market_cap_change_percentage_30d |->
                     Get(market_data, "market_cap_change_percentage_30d", NoneVal),
                 rsi |-> NoneVal],
              elements |-> <<>>]

(***************************************************************************)
(* st.cache_data(ttl=300)                                                  *)
(*                                                                         *)
(* A store maps the arguments of a call to an entry [value, elements,      *)
(* written]: the result, the elements the call emitted (replayed on a      *)
(* hit) and the time of the write.                                         *)
(***************************************************************************)
TTL == 300

NoEntry == [absent |-> TRUE]

\* faulty variant: no entry is ever served, as without the decorator
FreshNever(entry, t) == FALSE

\* an entry is served until ttl seconds after its write
Fresh(entry, t) == entry # NoEntry /\ t < entry.written + TTL

\* faulty variant: only successful results are stored
MemoizeSuccessOnly(store, key, result, t) ==
    IF result.elements # <<>> THEN store
    ELSE [store EXCEPT ![key] =
            [value |-> result.value, elements |-> result.elements, written |-> t]]

\* whatever the function returned is stored under its arguments
Memoize(store, key, result, t) ==
    [store EXCEPT ![key] =
        [value |-> result.value, elements |-> result.elements, written |-> t]]

\* the result a hit serves
Served(entry) == [value |-> entry.value, elements |-> entry.elements]

(***************************************************************************)
(* main                                                                    *)
(***************************************************************************)
HEAD_ROWS == 50

\* round(x, 0) as the format spec ",.0f" applies it
Round0(x) ==
    IF ~IsFinite(x) THEN x
    ELSE LET q == x.n \div x.d
             r == x.n % x.d
             up == 2 * r > x.d \/ (2 * r = x.d /\ q % 2 = 1)
         IN  F(IF up THEN q + 1 ELSE q)

\* truth value of a number or None
Truthy(x) == x # NoneVal /\ x # F(0)

Only(cond, elems) == IF cond THEN elems ELSE <<>>

\* lines 116-127: the market analysis block
MarketBlock(coin_data) ==
    <<Element("subheader", "analysis", <<Upper(coin_data.name)>>)>>
    \o Only(Truthy(coin_data.price),
            <<Element("write", "price", <<Round2(coin_data.price)>>)>>)
    \o Only(Truthy(coin_data.market_cap),
            <<Element("write", "market_cap", <<Round0(coin_data.market_cap)>>)>>)
    \o Only(Truthy(coin_data.market_cap_change_percentage_30d),
            <<Element("write", "market_cap_change_30d",
                      <<Round2(coin_data.market_cap_change_percentage_30d)>>)>>)
    \o Only(Truthy(coin_data.volume) /\ Truthy(coin_data.market_cap),
            <<Element("write", "volume_ratio",
                      <<Round2(FMul(FDiv(coin_data.volume, coin_data.market_cap), F(100)))>>)>>)
    \o Only(Truthy(coin_data.volume),
            <<Element("write", "inflow", <<Round0(coin_data.volume)>>)>>)

Column(df, name) == [i \in 1..Len(df) |-> df[i][name]]

\* lines 140-147: the RSI line and the trade signal
SignalBlock(rsi_last) ==
    IF rsi_last = NoneVal THEN <<>>
    ELSE <<Element("write", "rsi", <<Round2(rsi_last)>>),
           Element(CASE HeadlineSignal(rsi_last) = "Mua" -> "success"
                     [] HeadlineSignal(rsi_last) = "Ban" -> "error"
                     [] OTHER -> "info",
                   "signal", <<HeadlineSignal(rsi_last)>>)>>

\* lines 232-234: sort_values("time"); rows with equal times keep their order
SortByTime(rows, ascending) ==
    LET before(i, j) ==
            IF ascending
            THEN rows[i].time < rows[j].time \/ (rows[i].time = rows[j].time /\ i < j)
            ELSE rows[i].time > rows[j].time \/ (rows[i].time = rows[j].time /\ i < j)
        rank(i) == 1 + Cardinality({j \in 1..Len(rows) : before(j, i)})
    IN  [k \in 1..Len(rows) |-> rows[CHOOSE i \in 1..Len(rows) : rank(i) = k]]

HeadRows(rows, n) == SubSeq(rows, 1, IF Len(rows) < n THEN Len(rows) ELSE n)

\* lines 225-237: the signal table
SignalTable(df, rsicol, order) ==
    LET rows == [i \in 1..Len(df) |->
                    [time |-> df[i].time,
                     price |-> Round2(df[i].price),
                     RSI |-> Round2(rsicol[i]),
                     volume_percent_mc |-> Round2(df[i].volume_percent_mc),
                     Signal |-> RowSignal(rsicol[i])]]
    IN  HeadRows(SortByTime(rows, order = "old_to_new"), HEAD_ROWS)

\* lines 135-237: what main displays once both fetches gave data
AnalysisBlock(df, order) ==
    LET rsicol == calculate_rsi(Column(df, "price"), DefaultPeriod)
        rsi_last == IF Len(rsicol) # 0 THEN rsicol[Len(rsicol)] ELSE NoneVal
    IN  SignalBlock(rsi_last)
        \o <<Element("subheader", "chart", <<>>),
             Element("plotly_chart", "chart",
                     <<Column(df, "time"), Column(df, "price"), rsicol,
                       Column(df, "volume_percent_mc")>>),
             Element("subheader", "table", <<>>),
             Element("dataframe", "table", SignalTable(df, rsicol, order))>>

PageHead == <<Element("title", "title", <<>>), Element("write", "intro", <<>>)>>

\* line 116: .upper() of a name that is no str raises AttributeError, which
\* nothing in main catches
NameRaises(coin_data) == ~IsStr(coin_data.name)

\* lines 111-129: the history call is reached when get_coin_data gave data
\* and the subheader did not raise
HistoryAsked(coin) == ~IsNone(coin.value) /\ ~NameRaises(coin.value)

\* lines 99-237: the page of one run, given what the two (cached) calls
\* returned; hist is read only when HistoryAsked(coin)
main(coin, hist, order) ==
    PageHead \o coin.elements
    \o (IF IsNone(coin.value) THEN <<>>
        ELSE IF NameRaises(coin.value)
        THEN <<Element("exception", "AttributeError", <<>>)>>
        ELSE MarketBlock(coin.value) \o hist.elements
             \o (IF Len(hist.value) = 0
                 THEN <<Element("error", "no_history", <<>>)>>
                 ELSE AnalysisBlock(hist.value, order)))

(***************************************************************************)
(* fetch_top_coins                                                         *)
(***************************************************************************)
PER_PAGE == 250

\* line 7: the number of pages to request
PageCount(total) == (total \div PER_PAGE) + (IF total % PER_PAGE # 0 THEN 1 ELSE 0)

\* lines 14-22: the request for a page
PageRequest(page) ==
    [vs_currency |-> "usd", order |-> "market_cap_desc", per_page |-> PER_PAGE,
     page |-> page, sparkline |-> "false"]

\* the market record the provider holds for the coin of a rank
MarketRecord(rank) ==
    [id |-> <<"id", rank>>, symbol |-> <<"symbol", rank>>, name |-> <<"name", rank>>,
     market_cap_rank |-> rank]

\* the body of a page that holds n records
PageBody(page, n) == [i \in 1..n |-> MarketRecord((page - 1) * PER_PAGE + i)]

\* lines 26-29: the three fields kept of every record
CoinsPage(coins_data) ==
    [i \in 1..Len(coins_data) |->
        [id |-> coins_data[i].id, symbol |-> coins_data[i].symbol,
         name |-> coins_data[i].name]]

\* faulty variant: the list written as collected
TruncateNot(list, total) == list

\* line 36: coins_list[:total]
Truncate(list, total) ==
    IF total >= 0 THEN SubSeq(list, 1, IF total < Len(list) THEN total ELSE Len(list))
    ELSE SubSeq(list, 1, IF Len(list) + total > 0 THEN Len(list) + total ELSE 0)

(***************************************************************************)
(* The parts of the state a specification does not use stay as they are    *)
(***************************************************************************)
IdleSig ==
    /\ sv = NaN
    /\ headline = "none"
    /\ rowsig = "none"
    /\ spc = "idle"

IdleRsi ==
    /\ period = DefaultPeriod
    /\ prices = <<>>
    /\ rsi = <<>>
    /\ rpc = "idle"

IdleHist ==
    /\ hin = [len |-> 0, step |-> 0, start |-> 0]
    /\ hdays = 0
    /\ hout = <<>>
    /\ hpc = "idle"

IdleApp ==
    /\ now = 0
    /\ coin_cache = <<>>
    /\ hist_cache = <<>>
    /\ sel = <<>>
    /\ step = <<>>
    /\ got = <<>>
    /\ fetched = <<>>
    /\ screen = <<>>

IdleCat ==
    /\ ctotal = 0
    /\ cpage = 0
    /\ coins_list = <<>>
    /\ cresponses = <<>>
    /\ cfile = <<>>
    /\ cpc = "idle"

(***************************************************************************)
(* Specification of the signal classifier                                  *)
(***************************************************************************)
MaxHalf == 200

\* RSI values 0, 0.5, 1, ..., and the undefined value
RsiValues == {Frac(k, 2) : k \in 0..MaxHalf} \cup {NaN}

InitSignal ==
    /\ sv \in RsiValues
    /\ headline = "none"
    /\ rowsig = "none"
    /\ spc = "input"
    /\ IdleRsi
    /\ IdleHist
    /\ IdleApp
    /\ IdleCat

Classify ==
    /\ spc = "input"
    /\ headline' = HeadlineSignal(sv)
    /\ rowsig' = RowSignal(sv)
    /\ spc' = "done"
    /\ UNCHANGED <<sv, rsiVars, histVars, appVars, catVars>>

NextSignal == Classify

SpecSignal == InitSignal /\ [][NextSignal]_vars

(***************************************************************************)
(* Specification of calculate_rsi                                          *)
(***************************************************************************)
MaxPeriod == 3

MaxLen == 4

MaxPrice == 4

Periods == (1..MaxPeriod) \cup {DefaultPeriod}

PriceSeqs == UNION {[1..l -> 1..MaxPrice] : l \in 0..MaxLen}

ToFloats(s) == [i \in 1..Len(s) |-> F(s[i])]

InitRsi ==
    /\ period \in Periods
    /\ prices \in PriceSeqs
    /\ rsi = <<>>
    /\ rpc = "input"
    /\ IdleSig
    /\ IdleHist
    /\ IdleApp
    /\ IdleCat

CalculateRsi ==
    /\ rpc = "input"
    /\ rsi' = calculate_rsi(ToFloats(prices), period)
    /\ rpc' = "done"
    /\ UNCHANGED <<period, prices, sigVars, histVars, appVars, catVars>>

NextRsi == CalculateRsi

SpecRsi == InitRsi /\ [][NextRsi]_vars

(***************************************************************************)
(* Specification of get_historical_data on long series                     *)
(***************************************************************************)
MaxMultiple == 2

Slack == 1

\* series lengths at and around the multiples of the budget
SeriesLengths ==
    {l \in 0..(MaxMultiple * BUDGET + Slack) :
        \E k \in 0..MaxMultiple : l >= k * BUDGET - Slack /\ l <= k * BUDGET + Slack}

DaysChoices == {1, SHORT_RANGE_DAYS, SHORT_RANGE_DAYS + 1, 365}

\* spacing of the provider's points: 1 and 5 minutes
StepChoices == {60 * 1000, 5 * 60 * 1000}

\* time of the first point: midnight and 18:00
StartChoices == {0, 18 * 60 * 60 * 1000}

SeriesParams == [len : SeriesLengths, step : StepChoices, start : StartChoices]

\* the market_chart object of a provider series: evenly spaced points, prices
\* moving up and down, volumes and market caps varying
ChartData(p) ==
    [prices |->
        [i \in 1..p.len |-> <<p.start + (i - 1) * p.step, F(100 + ((i * 7) % 13))>>],
     total_volumes |->
        [i \in 1..p.len |-> <<p.start + (i - 1) * p.step, F(1 + (i % 3))>>],
     market_caps |->
        [i \in 1..p.len |-> <<p.start + (i - 1) * p.step, F(1 + (i % 2))>>]]

InitDownsample ==
    /\ hin \in SeriesParams
    /\ hdays \in DaysChoices
    /\ hout = <<>>
    /\ hpc = "input"
    /\ IdleSig
    /\ IdleRsi
    /\ IdleApp
    /\ IdleCat

FetchHistory ==
    /\ hpc = "input"
    /\ hout' = get_historical_data(OkResponse(ChartData(hin)), hdays).value
    /\ hpc' = "done"
    /\ UNCHANGED <<hin, hdays, sigVars, rsiVars, appVars, catVars>>

NextDownsample == FetchHistory

SpecDownsample == InitDownsample /\ [][NextDownsample]_vars

(***************************************************************************)
(* Specification of the dashboard: script threads running main over the    *)
(* two caches of the process                                               *)
(*                                                                         *)
(* Every browser session runs main in a thread of its own, and a rerun of  *)
(* a session starts while the thread of its previous run may still wait    *)
(* in requests.get.  The stores of st.cache_data belong to the process.    *)
(* A thread is preempted only where that shows: before a store is read,    *)
(* between a miss and the request, and while the request waits (up to the  *)
(* timeout of 10 s); the clock runs in between.                            *)
(*                                                                         *)
(* After a miss st.cache_data takes the lock of the key, reads the store    *)
(* again and computes only if the entry is still missing, so that of the   *)
(* threads that missed one key together one computes and the others are    *)
(* served its result.                                                      *)
(***************************************************************************)
MaxTicks == 2

MaxRuns == 2

\* the clock advances by half a TTL
TickSeconds == TTL \div 2

\* two script threads are enough for every overlap of two calls; they are
\* numbered in the order of their first run
Sessions == {1, 2}

\* line 105: the options of the selectbox
AllCoins == {"bitcoin", "ethereum", "binancecoin", "solana", "ripple"}

\* positions of the slider (line 108) on either side of the hourly/daily switch
DaysInputs == {SHORT_RANGE_DAYS, 30}

\* line 223: the options of the radio
Orders == {"new_to_old", "old_to_new"}

HistKeys == AllCoins \X DaysInputs

\* the widget settings the runs over the caches choose between: two coins, for
\* one of them two spans, and the radio at its default, the first option
Settings ==
    {<<"bitcoin", SHORT_RANGE_DAYS, "new_to_old">>, <<"bitcoin", 30, "new_to_old">>,
     <<"ethereum", 30, "new_to_old">>}

HOUR_MS == 60 * 60 * 1000

\* the coin object the provider holds for a coin
SnapshotData(coin_id) ==
    IF coin_id = "bitcoin"
    THEN [name |-> Str("Bitcoin"), symbol |-> Str("btc"),
          market_data |->
            [current_price |-> [usd |-> Frac(12345678, 1000)],
             market_cap |-> [usd |-> F(2000000)],
             total_volume |-> [usd |-> F(30001)],
             market_cap_change_percentage_30d |-> Frac(-5125, 1000)]]
    ELSE [name |-> Str("Ethereum"), symbol |-> Str("eth"),
          market_data |->
            [current_price |-> [usd |-> F(2000)],
             total_volume |-> [usd |-> F(0)]]]

\* the market_chart object the provider holds for a request: the volume array
\* has one point more than the other two
HistoryData(req) ==
    LET dt == IF req.interval = "hourly" THEN HOUR_MS ELSE DAY_MS
        ps == IF req.coin = "bitcoin" THEN <<10, 13, 6>> ELSE <<9, 8>>
    IN  [prices |-> [i \in 1..Len(ps) |-> <<i * dt, F(ps[i])>>],
         total_volumes |-> [i \in 1..(Len(ps) + 1) |-> <<i * dt, F(i)>>],
         market_caps |-> [i \in 1..Len(ps) |-> <<i * dt, F(4 * i - 4)>>]]

\* a market_chart object whose arrays share no timestamp
DisjointData ==
    [prices |-> <<<<HOUR_MS, F(10)>>, <<2 * HOUR_MS, F(11)>>>>,
     total_volumes |-> <<<<3 * HOUR_MS, F(1)>>>>,
     market_caps |-> <<<<HOUR_MS, F(5)>>>>]

Raised(exc) == [exc |-> exc, status |-> 0, body |-> "", data |-> EmptyDict]

Answered(status, body, data) == [exc |-> "none", status |-> status, body |-> body, data |-> data]

ErrorData == [error |-> Str("coin not found")]

\* the ways a request can fail before any data is read
FailedResponses ==
    <<Raised("ConnectionError"),
      Raised("Timeout"),
      Answered(404, "json", ErrorData),
      Answered(500, "html", EmptyDict),
      Answered(200, "html", EmptyDict),
      Answered(200, "json", ErrorData)>>

\* coin objects with null where the code expects an object or a string, an
\* object without fields, and the JSON value null
OddSnapshots ==
    <<OkResponse([name |-> Str("Bitcoin"), symbol |-> Str("btc"), market_data |-> NoneVal]),
      OkResponse([name |-> Str("Bitcoin"), symbol |-> Str("btc"),
                  market_data |-> [current_price |-> NoneVal]]),
      OkResponse([name |-> Str("Bitcoin"), symbol |-> NoneVal]),
      OkResponse([name |-> NoneVal, symbol |-> Str("btc")]),
      OkResponse([market_data |-> [current_price |-> [usd |-> NoneVal]]]),
      OkResponse(EmptyDict),
      OkResponse(NoneVal)>>

\* statuses outside 200-299 for which raise_for_status (lines 17 and 44)
\* does not raise
OtherStatuses == <<199, 300, 399, 600>>

\* the answers a snapshot request can get
SnapshotResponses(coin_id) ==
    <<OkResponse(SnapshotData(coin_id))>> \o FailedResponses \o OddSnapshots
    \o [i \in 1..Len(OtherStatuses) |-> Answered(OtherStatuses[i], "json", SnapshotData(coin_id))]

\* the answers a history request can get; the third lacks the market_caps array
HistoryResponses(req) ==
    <<OkResponse(HistoryData(req)),
      OkResponse(DisjointData),
      OkResponse([prices |-> HistoryData(req).prices,
                  total_volumes |-> HistoryData(req).total_volumes])>>
    \o FailedResponses
    \o [i \in 1..Len(OtherStatuses) |-> Answered(OtherStatuses[i], "json", HistoryData(req))]

\* the answers the runs over the caches draw from: data, or a failed connection
FewSnapshotResponses(coin_id) ==
    <<OkResponse(SnapshotData(coin_id)), Raised("ConnectionError")>>

FewHistoryResponses(req) ==
    <<OkResponse(HistoryData(req)), Answered(500, "html", EmptyDict)>>

\* the answers a request is given in a specification
SnapshotAnswers(coin_id, every) ==
    IF every THEN SnapshotResponses(coin_id) ELSE FewSnapshotResponses(coin_id)

HistoryAnswers(req, every) ==
    IF every THEN HistoryResponses(req) ELSE FewHistoryResponses(req)

\* a call that has not returned yet
NoResult == [pending |-> TRUE]

NoRun == [coin |-> "none", days |-> 0, order |-> "none", run |-> 0]

InitApp ==
    /\ now = 0
    /\ coin_cache = [c \in AllCoins |-> NoEntry]
    /\ hist_cache = [k \in HistKeys |-> NoEntry]
    /\ sel = [s \in Sessions |-> NoRun]
    /\ step = [s \in Sessions |-> "idle"]
    /\ got = [s \in Sessions |-> [coin |-> NoResult, hist |-> NoResult]]
    /\ fetched = [s \in Sessions |-> <<>>]
    /\ screen = [s \in Sessions |-> <<>>]
    /\ IdleSig
    /\ IdleRsi
    /\ IdleHist
    /\ IdleCat

Call(api, key, resp) == [api |-> api, key |-> key, resp |-> resp]

\* another thread computes the same key under the lock of the key
Computing(s, at, key) ==
    \E t \in Sessions \ {s} :
        step[t] = at /\ (IF at = "coin_fetch" THEN sel[t].coin ELSE <<sel[t].coin, sel[t].days>>) = key

\* lines 111-129: get_coin_data returned coin to the run of session s after
\* the provider calls in calls; the run ends there or goes on to the history
AfterCoin(s, coin, calls) ==
    /\ got' = [got EXCEPT ![s] = [coin |-> coin, hist |-> NoResult]]
    /\ fetched' = [fetched EXCEPT ![s] = calls]
    /\ step' = [step EXCEPT ![s] = IF HistoryAsked(coin) THEN "hist_read" ELSE "idle"]
    /\ screen' = [screen EXCEPT ![s] =
                    IF HistoryAsked(coin) THEN <<>> ELSE main(coin, HistoryFailure, "none")]

\* lines 130-237: get_historical_data returned hist; the radio is read only
\* when the series is not empty
AfterHist(s, hist, calls) ==
    /\ got' = [got EXCEPT ![s].hist = hist]
    /\ fetched' = [fetched EXCEPT ![s] = calls]
    /\ step' = [step EXCEPT ![s] = "idle"]
    /\ screen' = [screen EXCEPT ![s] = main(got[s].coin, hist, sel[s].order)]

\* the runs of main started so far by the sessions in S
RECURSIVE Runs(_)
Runs(S) ==
    IF S = {} THEN 0
    ELSE LET s == CHOOSE x \in S : TRUE IN sel[s].run + Runs(S \ {s})

\* lines 99-111: a run of main starts with the widgets at one of settings and
\* reads the store of get_coin_data
Begin(s, settings) ==
    /\ step[s] = "idle"
    /\ Runs(Sessions) < MaxRuns
    /\ \A t \in Sessions : t < s => sel[t].run > 0
    /\ \E w \in settings :
          /\ sel' = [sel EXCEPT ![s] = [coin |-> w[1], days |-> w[2], order |-> w[3],
                                        run |-> sel[s].run + 1]]
          /\ IF Fresh(coin_cache[w[1]], now)
             THEN AfterCoin(s, Served(coin_cache[w[1]]), <<>>)
             ELSE /\ step' = [step EXCEPT ![s] = "coin_miss"]
                  /\ got' = [got EXCEPT ![s] = [coin |-> NoResult, hist |-> NoResult]]
                  /\ fetched' = [fetched EXCEPT ![s] = <<>>]
                  /\ screen' = [screen EXCEPT ![s] = <<>>]
    /\ UNCHANGED <<now, coin_cache, hist_cache, sigVars, rsiVars, histVars, catVars>>

\* line 12, after a miss: the thread waits for the lock of the key and reads
\* the store again; then get_coin_data is entered and sends its request
CoinCompute(s) ==
    /\ step[s] = "coin_miss"
    /\ ~Computing(s, "coin_fetch", sel[s].coin)
    /\ IF Fresh(coin_cache[sel[s].coin], now)
       THEN AfterCoin(s, Served(coin_cache[sel[s].coin]), <<>>)
       ELSE /\ step' = [step EXCEPT ![s] = "coin_fetch"]
            /\ UNCHANGED <<got, fetched, screen>>
    /\ UNCHANGED <<sel, now, coin_cache, hist_cache, sigVars, rsiVars,
                   histVars, catVars>>

\* lines 13-33: the request of get_coin_data is answered (by any answer if
\* every, else by one of the few);
\* what the function returns is stored at the time of the return
CoinReturn(s, every) ==
    /\ step[s] = "coin_fetch"
    /\ \E i \in 1..Len(SnapshotAnswers(sel[s].coin, every)) :
          LET resp == SnapshotAnswers(sel[s].coin, every)[i]
              coin == get_coin_data(resp)
          IN  /\ coin_cache' = Memoize(coin_cache, sel[s].coin, coin, now)
              /\ AfterCoin(s, coin, <<Call("coin", <<sel[s].coin>>, resp)>>)
    /\ UNCHANGED <<sel, now, hist_cache, sigVars, rsiVars, histVars, catVars>>

\* line 130: the store of get_historical_data is read
HistRead(s) ==
    /\ step[s] = "hist_read"
    /\ LET key == <<sel[s].coin, sel[s].days>>
       IN  IF Fresh(hist_cache[key], now)
           THEN AfterHist(s, Served(hist_cache[key]), fetched[s])
           ELSE /\ step' = [step EXCEPT ![s] = "hist_miss"]
                /\ UNCHANGED <<got, fetched, screen>>
    /\ UNCHANGED <<sel, now, coin_cache, hist_cache, sigVars, rsiVars, histVars, catVars>>

\* line 38, after a miss
HistCompute(s) ==
    /\ step[s] = "hist_miss"
    /\ LET key == <<sel[s].coin, sel[s].days>>
       IN  /\ ~Computing(s, "hist_fetch", key)
           /\ IF Fresh(hist_cache[key], now)
              THEN AfterHist(s, Served(hist_cache[key]), fetched[s])
              ELSE /\ step' = [step EXCEPT ![s] = "hist_fetch"]
                   /\ UNCHANGED <<got, fetched, screen>>
    /\ UNCHANGED <<sel, now, coin_cache, hist_cache, sigVars, rsiVars, histVars, catVars>>

\* lines 39-78: the request of get_historical_data is answered
HistReturn(s, every) ==
    /\ step[s] = "hist_fetch"
    /\ LET key == <<sel[s].coin, sel[s].days>>
           menu == HistoryAnswers(HistoryRequest(sel[s].coin, sel[s].days), every)
       IN  \E i \in 1..Len(menu) :
             LET hist == get_historical_data(menu[i], sel[s].days)
             IN  /\ hist_cache' = Memoize(hist_cache, key, hist, now)
                 /\ AfterHist(s, hist, fetched[s] \o <<Call("history", key, menu[i])>>)
    /\ UNCHANGED <<sel, now, coin_cache, sigVars, rsiVars, histVars, catVars>>

\* the steps of the script threads while the process and its caches live on
RunBegin == \E s \in Sessions : Begin(s, Settings)

RunCoinCompute == \E s \in Sessions : CoinCompute(s)

RunCoinReturn == \E s \in Sessions : CoinReturn(s, FALSE)

RunHistRead == \E s \in Sessions : HistRead(s)

RunHistCompute == \E s \in Sessions : HistCompute(s)

RunHistReturn == \E s \in Sessions : HistReturn(s, FALSE)

Tick ==
    /\ now < MaxTicks * TickSeconds
    /\ now' = now + TickSeconds
    /\ UNCHANGED <<coin_cache, hist_cache, sessVars, sigVars, rsiVars,
                   histVars, catVars>>

NextApp ==
    \/ RunBegin
    \/ RunCoinCompute
    \/ RunCoinReturn
    \/ RunHistRead
    \/ RunHistCompute
    \/ RunHistReturn
    \/ Tick

SpecApp == InitApp /\ [][NextApp]_vars

(***************************************************************************)
(* Specification of the first run of main in a fresh process, over every   *)
(* answer the provider can give                                            *)
(***************************************************************************)
FirstBegin == sel[1].run = 0 /\ Begin(1, AllCoins \X DaysInputs \X Orders)

FirstCoinCompute == CoinCompute(1)

FirstCoinReturn == CoinReturn(1, TRUE)

FirstHistRead == HistRead(1)

FirstHistCompute == HistCompute(1)

FirstHistReturn == HistReturn(1, TRUE)

NextPage ==
    \/ FirstBegin
    \/ FirstCoinCompute
    \/ FirstCoinReturn
    \/ FirstHistRead
    \/ FirstHistCompute
    \/ FirstHistReturn

SpecPage == InitApp /\ [][NextPage]_vars

(***************************************************************************)
(* Specification of the catalog job                                        *)
(***************************************************************************)
MaxTotalPages == 2

\* requested totals at and next to the multiples of the page size
Totals ==
    {t \in 0..(MaxTotalPages * PER_PAGE + 1) :
        \E k \in 0..MaxTotalPages : t >= k * PER_PAGE - 1 /\ t <= k * PER_PAGE + 1}

\* the numbers of records a page can come back with
PageSizes == {0, 1, PER_PAGE}

\* statuses other than 200 a page can come back with
ErrorStatuses == {429, 500}

InitCatalog ==
    /\ ctotal \in Totals
    /\ cpage = 1
    /\ coins_list = <<>>
    /\ cresponses = <<>>
    /\ cfile = <<>>
    /\ cpc = "loop"
    /\ IdleSig
    /\ IdleRsi
    /\ IdleHist
    /\ IdleApp

\* lines 22-31: a page comes back with status 200 and n records
PageOk(n) ==
    /\ cpc = "loop"
    /\ cpage <= PageCount(ctotal)
    /\ coins_list' = coins_list \o CoinsPage(PageBody(cpage, n))
    /\ cresponses' = Append(cresponses, [request |-> PageRequest(cpage), status |-> 200,
                                         records |-> n])
    /\ cpage' = cpage + 1
    /\ UNCHANGED <<ctotal, cfile, cpc, sigVars, rsiVars, histVars, appVars>>

\* lines 22-33: a page comes back with another status
PageError(status) ==
    /\ cpc = "loop"
    /\ cpage <= PageCount(ctotal)
    /\ cresponses' = Append(cresponses, [request |-> PageRequest(cpage), status |-> status,
                                         records |-> 0])
    /\ cpage' = cpage + 1
    /\ UNCHANGED <<ctotal, coins_list, cfile, cpc, sigVars, rsiVars, histVars, appVars>>

\* line 22: requests.get raises; nothing catches it and the job ends
PageRaises ==
    /\ cpc = "loop"
    /\ cpage <= PageCount(ctotal)
    /\ cpc' = "raised"
    /\ UNCHANGED <<ctotal, cpage, coins_list, cresponses, cfile, sigVars, rsiVars,
                   histVars, appVars>>

\* lines 36-39: after the last page the list is cut and written
WriteFile ==
    /\ cpc = "loop"
    /\ cpage > PageCount(ctotal)
    /\ coins_list' = Truncate(coins_list, ctotal)
    /\ cfile' = <<coins_list'>>
    /\ cpc' = "done"
    /\ UNCHANGED <<ctotal, cpage, cresponses, sigVars, rsiVars, histVars, appVars>>

NextCatalog ==
    \/ \E n \in PageSizes : PageOk(n)
    \/ \E status \in ErrorStatuses : PageError(status)
    \/ PageRaises
    \/ WriteFile

SpecCatalog == InitCatalog /\ [][NextCatalog]_vars

(***************************************************************************)
(* Properties of the signal classifier                                     *)
(***************************************************************************)
\* v < c and v > c for a float v and an integer c, by integer arithmetic
BelowInt(v, c) == v.d > 0 /\ v.n < c * v.d

AboveInt(v, c) == v.d > 0 /\ v.n > c * v.d

\* C1: the signal is Mua exactly when v < 30, Ban exactly when v > 70 and Giu
\* otherwise (so at 30, at 70 and for NaN), and the headline signal and the
\* table's per-row signal agree.
C1_SignalStrictThresholds ==
    spc = "done" =>
        /\ (headline = "Mua") <=> BelowInt(sv, 30)
        /\ (headline = "Ban") <=> AboveInt(sv, 70)
        /\ (headline = "Giu") <=> ~BelowInt(sv, 30) /\ ~AboveInt(sv, 70)
        /\ headline \in {"Mua", "Ban", "Giu"}
        /\ rowsig = headline

C1_Witness ==
    /\ spc = "done"
    /\ sv = F(30)
    /\ headline = "Giu"
    /\ rowsig = "Giu"

(***************************************************************************)
(* Properties of calculate_rsi                                             *)
(***************************************************************************)
Max(a, b) == IF a > b THEN a ELSE b

\* sums of the rises and of the falls of the integer prices over steps lo..hi
\* (step k goes from point k-1 to point k)
RECURSIVE Rises(_, _, _)
Rises(s, lo, hi) ==
    IF lo > hi THEN 0
    ELSE Max(s[hi] - s[hi - 1], 0) + Rises(s, lo, hi - 1)

RECURSIVE Falls(_, _, _)
Falls(s, lo, hi) ==
    IF lo > hi THEN 0
    ELSE Max(s[hi - 1] - s[hi], 0) + Falls(s, lo, hi - 1)

\* first step of the trailing window that ends at point i
FirstStep(i, p) == Max(2, i - p + 1)

StrictlyIncreasing(s) == \A i \in 1..(Len(s) - 1) : s[i] < s[i + 1]

\* at least one step down, and every step is down
StrictlyDecreasing(s) == Len(s) >= 2 /\ \A i \in 1..(Len(s) - 1) : s[i] > s[i + 1]

\* C2 as stated: a series shorter than the period gets one and the same
\* placeholder value at every point.
C2_SamePlaceholderEverywhere ==
    (rpc = "done" /\ Len(prices) < period) =>
        \A i, j \in 1..Len(rsi) : rsi[i] = rsi[j]

\* C2 amended: a series shorter than the period gets, at every point, the RSI
\* of the partial window of the points seen so far: 100 when no price fell in
\* it (the first point included), else 100 * rises / (rises + falls).
C2_PartialWindowRsi ==
    (rpc = "done" /\ Len(prices) < period) =>
        /\ Len(rsi) = Len(prices)
        /\ \A i \in 1..Len(rsi) :
              LET g == Rises(prices, 2, i)
                  l == Falls(prices, 2, i)
              IN  rsi[i] = IF l = 0 THEN F(100) ELSE Frac(100 * g, g + l)

C2_Witness ==
    /\ rpc = "done"
    /\ period = DefaultPeriod
    /\ Len(prices) = 3
    /\ rsi[1] = F(100)
    /\ rsi[2] = F(0)
    /\ rsi[3] = F(50)

\* C3: wherever the trailing window holds no fall of the price (the average
\* loss is 0), the RSI is 100, also when the window holds no rise either.
C3_ZeroLossGives100 ==
    rpc = "done" =>
        \A i \in 1..Len(rsi) :
            /\ (AvgLoss(ToFloats(prices), period)[i] = F(0))
                   <=> (Falls(prices, FirstStep(i, period), i) = 0)
            /\ (Falls(prices, FirstStep(i, period), i) = 0) => rsi[i] = F(100)

\* a window of constant prices that an earlier fall has left
C3_Witness ==
    /\ rpc = "done"
    /\ period = 2
    /\ Len(prices) = 4
    /\ prices[2] < prices[1]
    /\ prices[3] = prices[2]
    /\ prices[4] = prices[3]
    /\ AvgGain(ToFloats(prices), period)[4] = F(0)
    /\ rsi[4] = F(100)

\* C4: a strictly increasing series of at least `period` points ends with
\* RSI 100, a strictly decreasing one with RSI 0.
C4_MonotoneSeries ==
    (rpc = "done" /\ Len(prices) >= period) =>
        /\ StrictlyIncreasing(prices) => rsi[Len(rsi)] = F(100)
        /\ StrictlyDecreasing(prices) => rsi[Len(rsi)] = F(0)

C4_Witness ==
    /\ rpc = "done"
    /\ period = 3
    /\ Len(prices) = 4
    /\ StrictlyDecreasing(prices)
    /\ rsi[4] = F(0)

(***************************************************************************)
(* Properties of get_historical_data                                       *)
(***************************************************************************)
\* row k of the result is point i of the provider's series
IsPoint(row, data, i) ==
    /\ row.time = data.prices[i][1]
    /\ row.price = data.prices[i][2]
    /\ row.volume = data.total_volumes[i][2]
    /\ row.market_cap = data.market_caps[i][2]

\* the result holds exactly the points 0, n, 2n, ... of the provider's series
KeepsEvery(n) ==
    LET data == ChartData(hin)
    IN  /\ Len(hout) = (hin.len + n - 1) \div n
        /\ \A k \in 1..Len(hout) : IsPoint(hout[k], data, (k - 1) * n + 1)

\* C5: a series of at most 1000 points comes back unchanged under either span
\* policy, and downsampling a result that is within the budget again, under
\* either policy, changes nothing.
C5_WithinBudgetUnchanged ==
    hpc = "done" =>
        /\ hin.len <= 1000 => KeepsEvery(1)
        /\ Len(hout) <= 1000 => \A d \in DaysChoices : Downsample(hout, d) = hout

C5_Witness ==
    /\ hpc = "done"
    /\ hin.len = 1000
    /\ hdays > 7
    /\ Len(hout) = 1000

\* C6 as stated: above the budget and for a span of at most 7 days the points
\* kept are 0, N, 2N, ... with N = ceil(length / 1000).
C6_EveryCeilNth ==
    (hpc = "done" /\ hin.len > 1000 /\ hdays <= 7) =>
        KeepsEvery((hin.len + 999) \div 1000)

\* C6 amended: the points kept are 0, N, 2N, ... with N = floor(length / 1000) + 1,
\* which is ceil(length / 1000) except at the exact multiples of 1000, where it
\* is one more.
C6_EveryFloorPlusOneNth ==
    (hpc = "done" /\ hin.len > 1000 /\ hdays <= 7) =>
        /\ KeepsEvery(hin.len \div 1000 + 1)
        /\ Len(hout) <= 1000

C6_Witness ==
    /\ hpc = "done"
    /\ hin.len = 2000
    /\ hdays <= 7
    /\ Len(hout) = 667
    /\ hout[2].time = hin.start + 3 * hin.step

(***************************************************************************)
(* Properties of a run of main                                             *)
(***************************************************************************)
SeqToSet(q) == {q[i] : i \in 1..Len(q)}

\* the answer is no data: the request raised, the status is not 2xx, the body
\* is no JSON, or the object has an "error" field
NoData(resp) ==
    \/ resp.exc # "none"
    \/ resp.status < 200
    \/ resp.status > 299
    \/ resp.body # "json"
    \/ "error" \in DOMAIN resp.data

\* a coin answer that is null, or has null for the name, for the symbol, for
\* market_data or for one of its three price objects
NullInSnapshot(resp) ==
    /\ ~NoData(resp)
    /\ \/ resp.data = NoneVal
       \/ "name" \in DOMAIN resp.data /\ resp.data.name = NoneVal
       \/ "symbol" \in DOMAIN resp.data /\ resp.data.symbol = NoneVal
       \/ "market_data" \in DOMAIN resp.data /\ resp.data.market_data = NoneVal
       \/ /\ "market_data" \in DOMAIN resp.data
          /\ \E k \in {"current_price", "market_cap", "total_volume"} :
                /\ k \in DOMAIN resp.data.market_data
                /\ resp.data.market_data[k] = NoneVal

\* a market_chart answer lacks an array
LacksArray(resp) ==
    ~NoData(resp) /\ \E a \in {"prices", "total_volumes", "market_caps"} : a \notin DOMAIN resp.data

\* the arrays of a market_chart answer have no timestamp in common
NothingJoins(resp) ==
    /\ ~NoData(resp)
    /\ ~LacksArray(resp)
    /\ ~\E i \in 1..Len(resp.data.prices), j \in 1..Len(resp.data.total_volumes),
           k \in 1..Len(resp.data.market_caps) :
            /\ resp.data.prices[i][1] = resp.data.total_volumes[j][1]
            /\ resp.data.prices[i][1] = resp.data.market_caps[k][1]

FetchFailed(call) ==
    IF call.api = "coin" THEN NoData(call.resp) \/ NullInSnapshot(call.resp)
    ELSE NoData(call.resp) \/ LacksArray(call.resp) \/ NothingJoins(call.resp)

\* the run of session s is over
Finished(s) == step[s] = "idle" /\ sel[s].run > 0

ShowsError(s) ==
    \E e \in SeqToSet(screen[s]) : e.w = "error" /\ e.text \in {"coin_fetch", "history", "no_history"}

ShowsAnalysis(s) ==
    \E e \in SeqToSet(screen[s]) :
        \/ e.text \in {"rsi", "signal", "chart", "table"}
        \/ e.w \in {"plotly_chart", "dataframe", "success", "info"}

ShowsException(s) == \E e \in SeqToSet(screen[s]) : e.w = "exception"

\* C7: a run in which a fetch failed, or whose joined series is empty, shows
\* an error message last, shows no RSI, signal, chart or table, and ends
\* without an exception.
C7_FailedRunShowsOnlyError ==
    \A s \in Sessions :
        (Finished(s) /\ \E call \in SeqToSet(fetched[s]) : FetchFailed(call)) =>
            /\ ShowsError(s)
            /\ ~ShowsAnalysis(s)
            /\ ~ShowsException(s)
            /\ screen[s][Len(screen[s])].w = "error"

C7_Witness ==
    /\ Finished(1)
    /\ Len(fetched[1]) = 2
    /\ ~FetchFailed(fetched[1][1])
    /\ LacksArray(fetched[1][2].resp)
    /\ ShowsError(1)
    /\ ~ShowsAnalysis(1)

\* cases that are reached: null for market_data is caught and shown as a
\* failed fetch; null for the name ends main by an exception; an answer with
\* status 300 is taken as data and the analysis is shown
C7_NullMarketData ==
    /\ Finished(1)
    /\ Len(fetched[1]) = 1
    /\ fetched[1][1].resp.data = [name |-> Str("Bitcoin"), symbol |-> Str("btc"),
                                  market_data |-> NoneVal]
    /\ screen[1] = PageHead \o <<Element("error", "coin_fetch", <<>>)>>

C7_NullNameRaises ==
    /\ Finished(1)
    /\ Len(fetched[1]) = 1
    /\ NullInSnapshot(fetched[1][1].resp)
    /\ ShowsException(1)
    /\ ~ShowsError(1)

C7_Status300ShowsAnalysis ==
    /\ Finished(1)
    /\ Len(fetched[1]) = 2
    /\ fetched[1][1].resp.status = 300
    /\ ShowsAnalysis(1)
    /\ ~ShowsError(1)

(***************************************************************************)
(* Properties of the caches                                                *)
(***************************************************************************)
\* the entry was written less than 300 s before t
Within(entry, t) == entry # NoEntry /\ t < entry.written + 300

CoinFailed(entry) == entry # NoEntry /\ entry.value = NoneVal

HistFailed(entry) ==
    entry # NoEntry /\ entry.value = <<>> /\ entry.elements # <<>>

AsResult(entry) == [value |-> entry.value, elements |-> entry.elements]

\* session s starts a run in this step, and so reads the store of the coins
StartsRun(s) == sel'[s].run = sel[s].run + 1

\* session s leaves position at in this step
Leaves(s, at) == step[s] = at /\ step'[s] # at

\* session s sends a request of get_coin_data or get_historical_data in this step
Sends(s, at) == step[s] # at /\ step'[s] = at

LastCall(s) == fetched'[s][Len(fetched'[s])]

HistKeyOf(s) == <<sel[s].coin, sel[s].days>>

\* what C8 says of one step
C8Step ==
    /\ \A c \in AllCoins :
          Within(coin_cache[c], now') => coin_cache'[c] = coin_cache[c]
    /\ \A k \in HistKeys :
          Within(hist_cache[k], now') => hist_cache'[k] = hist_cache[k]
    /\ \A s \in Sessions :
          /\ (StartsRun(s) /\ Within(coin_cache[sel'[s].coin], now)) =>
                /\ got'[s].coin = AsResult(coin_cache[sel'[s].coin])
                /\ fetched'[s] = <<>>
                /\ step'[s] \in {"hist_read", "idle"}
          /\ (Leaves(s, "hist_read") /\ Within(hist_cache[HistKeyOf(s)], now)) =>
                /\ got'[s].hist = AsResult(hist_cache[HistKeyOf(s)])
                /\ fetched'[s] = fetched[s]
                /\ step'[s] = "idle"
                /\ hist_cache[HistKeyOf(s)].value # <<>> =>
                      \E el \in SeqToSet(screen'[s]) :
                          /\ el.w = "plotly_chart"
                          /\ el.val[1] = Column(hist_cache[HistKeyOf(s)].value, "time")
                          /\ el.val[2] = Column(hist_cache[HistKeyOf(s)].value, "price")
          /\ Sends(s, "coin_fetch") => ~Within(coin_cache[sel[s].coin], now)
          /\ Sends(s, "hist_fetch") => ~Within(hist_cache[HistKeyOf(s)], now)
          /\ (Leaves(s, "coin_fetch") /\ FetchFailed(LastCall(s))) =>
                /\ \A c2 \in AllCoins \ {sel[s].coin} : coin_cache'[c2] = coin_cache[c2]
                /\ hist_cache' = hist_cache
          /\ (Leaves(s, "hist_fetch") /\ FetchFailed(LastCall(s))) =>
                /\ \A k2 \in HistKeys \ {HistKeyOf(s)} : hist_cache'[k2] = hist_cache[k2]
                /\ coin_cache' = coin_cache

\* C8: an entry keeps its value for the 300 s after its write; a read within
\* those 300 s returns the entry's value and no request is sent for its key;
\* a call that fails changes the entry of no other key.
C8_EntriesKeptWithinTtl == [][C8Step]_vars

\* a run served from entries the other session wrote earlier
C8_Witness ==
    \E s \in Sessions :
        /\ Finished(s)
        /\ fetched[s] = <<>>
        /\ coin_cache[sel[s].coin].value # NoneVal
        /\ coin_cache[sel[s].coin].written < now
        /\ hist_cache[HistKeyOf(s)] # NoEntry
        /\ hist_cache[HistKeyOf(s)].written < now
        /\ hist_cache[HistKeyOf(s)].value # <<>>

\* what C10 says of one step
C10Step ==
    /\ \A c \in AllCoins :
          (CoinFailed(coin_cache[c]) /\ Within(coin_cache[c], now')) =>
              coin_cache'[c] = coin_cache[c]
    /\ \A k \in HistKeys :
          (HistFailed(hist_cache[k]) /\ Within(hist_cache[k], now')) =>
              hist_cache'[k] = hist_cache[k]
    /\ \A s \in Sessions :
          /\ (Leaves(s, "coin_fetch") /\ FetchFailed(LastCall(s))) =>
                /\ CoinFailed(coin_cache'[sel[s].coin])
                /\ coin_cache'[sel[s].coin].written = now
          /\ (Leaves(s, "hist_fetch") /\ FetchFailed(LastCall(s))) =>
                /\ hist_cache'[HistKeyOf(s)] # NoEntry
                /\ hist_cache'[HistKeyOf(s)].value = <<>>
                /\ hist_cache'[HistKeyOf(s)].written = now
          /\ (StartsRun(s) /\ CoinFailed(coin_cache[sel'[s].coin])) =>
                IF Within(coin_cache[sel'[s].coin], now)
                THEN /\ fetched'[s] = <<>>
                     /\ step'[s] = "idle"
                     /\ screen'[s] = PageHead \o <<Element("error", "coin_fetch", <<>>)>>
                ELSE step'[s] = "coin_miss"
          /\ (Leaves(s, "hist_read") /\ HistFailed(hist_cache[HistKeyOf(s)])) =>
                IF Within(hist_cache[HistKeyOf(s)], now)
                THEN /\ fetched'[s] = fetched[s]
                     /\ step'[s] = "idle"
                     /\ SubSeq(screen'[s], Len(screen'[s]) - 1, Len(screen'[s]))
                           = <<Element("error", "history", <<>>),
                               Element("error", "no_history", <<>>)>>
                ELSE step'[s] = "hist_miss"
          /\ (Sends(s, "coin_fetch") /\ CoinFailed(coin_cache[sel[s].coin])) =>
                ~Within(coin_cache[sel[s].coin], now)
          /\ (Sends(s, "hist_fetch") /\ HistFailed(hist_cache[HistKeyOf(s)])) =>
                ~Within(hist_cache[HistKeyOf(s)], now)

\* C10: a failed call is stored under its key like a result; for the 300 s
\* after the write the failure stays the entry of the key, a run that reads
\* it shows the failure again and no request is sent for the key; after the
\* 300 s a read misses.
C10_FailureMemoized == [][C10Step]_vars

\* a run that met a failure stored half a TTL earlier
C10_Witness ==
    \E s \in Sessions :
        /\ Finished(s)
        /\ fetched[s] = <<>>
        /\ CoinFailed(coin_cache[sel[s].coin])
        /\ coin_cache[sel[s].coin].written < now
        /\ now < coin_cache[sel[s].coin].written + 300

(***************************************************************************)
(* Properties of the catalog job                                           *)
(***************************************************************************)
\* the records of the pages 1..i that came back with status 200, in page
\* order, cut down to the three fields
RECURSIVE Collected(_)
Collected(i) ==
    IF i = 0 THEN <<>>
    ELSE Collected(i - 1)
         \o (IF cresponses[i].status = 200
             THEN [j \in 1..cresponses[i].records |->
                      LET rank == (i - 1) * 250 + j
                      IN  [id |-> <<"id", rank>>, symbol |-> <<"symbol", rank>>,
                           name |-> <<"name", rank>>]]
             ELSE <<>>)

\* the least number of pages of 250 that hold `total` records
CeilPages(total) == CHOOSE p \in 0..(total + 1) : p * 250 >= total /\ (p - 1) * 250 < total

\* C9: the job requests the pages 1..ceil(total/250) in order, 250 records a
\* page, whatever their statuses, and writes the first `total` records of
\* the pages that came back with status 200, so never more than `total`.
C9_CatalogTruncated ==
    /\ cpc # "done" => cfile = <<>>
    /\ cpc = "done" =>
          /\ Len(cresponses) = CeilPages(ctotal)
          /\ \A i \in 1..Len(cresponses) :
                /\ cresponses[i].request.page = i
                /\ cresponses[i].request.per_page = 250
          /\ Len(cfile) = 1
          /\ Len(cfile[1]) <= ctotal
          /\ LET all == Collected(Len(cresponses))
             IN  cfile[1] = SubSeq(all, 1, IF Len(all) < ctotal THEN Len(all) ELSE ctotal)

\* more records came back than were asked for, after a page that failed
C9_Witness ==
    /\ cpc = "done"
    /\ ctotal = 251
    /\ cresponses[1].status = 200
    /\ cresponses[1].records = 250
    /\ cresponses[2].status = 200
    /\ cresponses[2].records = 250
    /\ Len(cfile[1]) = 251

\* a second case that is reached: a page that failed did not stop the next
C9_FailedPageSkipped ==
    /\ cpc = "done"
    /\ Len(cresponses) = 2
    /\ cresponses[1].status # 200
    /\ cresponses[2].status = 200
    /\ Len(cfile[1]) = 250

====
